---- MODULE Spec2Model ----
(***************************************************************************)
(* Model of components/search/src/lib.rs (zola): the search index builder. *)
(*                                                                         *)
(* A Rust String is a sequence of Unicode scalar values; a scalar value is *)
(* written as a one-element name ("a", "U+00E9").  Utf8Len gives the size  *)
(* of its UTF-8 encoding, so byte offsets (char_indices, &s[..idx]) are    *)
(* computed as the code computes them.                                     *)
(***************************************************************************)
EXTENDS Integers, Sequences, FiniteSets, TLC

VARIABLES
    pc,             \* position of the call being modelled
    lang,           \* build_index / get_categories_and_tags: lang
    library,        \* &Library: sections, pages, taxonomies_def
    config,         \* &Config: languages[lang].search
    index,          \* the elasticlunr Index under construction
    visited,        \* keys of library.sections the for loop has passed
    added,          \* units on whose behalf index.add_doc was called
    result,         \* value returned by build_index
    search_config,  \* &Search given to build_fields / fill_index
    doc,            \* the arguments of fill_index
    schema,         \* fields registered by build_fields
    row,            \* Vec<String> returned by fill_index
    text,           \* argument of path_tokenizer
    tokens,         \* Vec<String> returned by path_tokenizer
    permalink,      \* argument of get_categories_and_tags
    url_segment,    \* segments.get(0) inside get_categories_and_tags
    taxo            \* (categories, tags) returned by it

vars == <<pc, lang, library, config, index, visited, added, result,
          search_config, doc, schema, row, text, tokens,
          permalink, url_segment, taxo>>

(***************************************************************************)
(* Bounds of the model.                                                    *)
(***************************************************************************)
MaxTextLen == 4
MaxContentLen == 3
MaxTruncate == 3
MaxPermalinkLen == 3
MaxPages == 1

\* Option<T>: None is the empty sequence, Some(x) the one-element sequence
None == <<>>

Some(x) == <<x>>

unwrap(opt) == opt[1]

\* the outcome of a call that panicked (written where a String would be)
Panic == <<"panic!">>

(***************************************************************************)
(* Strings.                                                                *)
(***************************************************************************)
RECURSIVE SeqsUpTo(_, _)
SeqsUpTo(S, n) ==
    IF n = 0 THEN {<<>>}
    ELSE LET shorter == SeqsUpTo(S, n - 1)
         IN  shorter \cup {Append(s, c) : s \in {t \in shorter : Len(t) = n - 1}, c \in S}

Take(s, n) == SubSeq(s, 1, IF n < Len(s) THEN n ELSE Len(s))

RECURSIVE Flatten(_)
Flatten(ss) == IF ss = <<>> THEN <<>> ELSE Head(ss) \o Flatten(Tail(ss))

\* the modelled characters that have the White_Space property
Whitespace == {" ", "U+00A0"}

\* char::is_whitespace
is_whitespace(c) == c \in Whitespace

\* char::len_utf8
Utf8Len(c) ==
    CASE c \in {"U+00E9", "U+00C9", "U+00A0"} -> 2
      [] c = "U+20AC" -> 3
      [] c = "U+1D400" -> 4
      [] OTHER -> 1

\* char::is_uppercase (the Uppercase property).  U+1D400 MATHEMATICAL BOLD
\* CAPITAL A is a capital letter (Lu) that has no lowercase mapping.
is_uppercase(c) == c \in {"A", "B", "U+00C9", "U+1D400"}

\* char::to_lowercase: the Unicode lowercase mapping, the character itself
\* where it has none.
to_lowercase_char(c) ==
    CASE c = "A" -> "a"
      [] c = "B" -> "b"
      [] c = "U+00C9" -> "U+00E9"
      [] OTHER -> c

\* str::to_lowercase
to_lowercase(s) == [i \in 1..Len(s) |-> to_lowercase_char(s[i])]

\* str::trim: strips leading and trailing whitespace
RECURSIVE trim_start(_)
trim_start(s) ==
    IF s # <<>> /\ is_whitespace(Head(s)) THEN trim_start(Tail(s)) ELSE s

RECURSIVE trim_end(_)
trim_end(s) ==
    IF s # <<>> /\ is_whitespace(s[Len(s)]) THEN trim_end(SubSeq(s, 1, Len(s) - 1)) ELSE s

trim(s) == trim_end(trim_start(s))

\* str::join
RECURSIVE join(_, _)
join(ss, sep) ==
    IF ss = <<>> THEN <<>>
    ELSE IF Len(ss) = 1 THEN ss[1]
    ELSE ss[1] \o sep \o join(Tail(ss), sep)

(***************************************************************************)
(* path_tokenizer                                                          *)
(***************************************************************************)
\* the closure given to split: |c| c.is_whitespace() || c == '-' || c == '/'
PathDelimiters == Whitespace \cup {"-", "/"}

\* str::split(pattern): every segment between two matches, empty ones too
RECURSIVE SplitFrom(_, _, _, _)
SplitFrom(s, i, cur, delims) ==
    IF i > Len(s) THEN <<cur>>
    ELSE IF s[i] \in delims THEN <<cur>> \o SplitFrom(s, i + 1, <<>>, delims)
    ELSE SplitFrom(s, i + 1, Append(cur, s[i]), delims)

split(s, delims) == SplitFrom(s, 1, <<>>, delims)

path_tokenizer_keep_empty(t) ==
    LET segs == split(t, PathDelimiters)
    IN  [i \in 1..Len(segs) |-> to_lowercase(trim(segs[i]))]

path_tokenizer(t) ==
    LET segs == SelectSeq(split(t, PathDelimiters), LAMBDA s : s # <<>>)
    IN  [i \in 1..Len(segs) |-> to_lowercase(trim(segs[i]))]

(***************************************************************************)
(* build_fields                                                            *)
(***************************************************************************)
\* IndexBuilder::add_field: the engine's default tokenizer
add_field(builder, name) ==
    Append(builder, [name |-> name, tokenizer |-> "default"])

\* IndexBuilder::add_field_with_tokenizer
add_field_with_tokenizer(builder, name, tokenizer) ==
    Append(builder, [name |-> name, tokenizer |-> tokenizer])

build_fields_tags_last(sc, builder) ==
    LET i1 == IF sc.include_title THEN add_field(builder, "title") ELSE builder
        i2 == IF sc.include_description THEN add_field(i1, "description") ELSE i1
        i3 == IF sc.include_path
              THEN add_field_with_tokenizer(i2, "path", "path_tokenizer") ELSE i2
        i4 == IF sc.include_content THEN add_field(i3, "body") ELSE i3
        i5 == IF sc.include_categories THEN add_field(i4, "categories") ELSE i4
        i6 == IF sc.include_tags THEN add_field(i5, "tags") ELSE i5
    IN  i6

build_fields(sc, builder) ==
    LET i1 == IF sc.include_title THEN add_field(builder, "title") ELSE builder
        i2 == IF sc.include_description THEN add_field(i1, "description") ELSE i1
        i3 == IF sc.include_path
              THEN add_field_with_tokenizer(i2, "path", "path_tokenizer") ELSE i2
        i4 == IF sc.include_content THEN add_field(i3, "body") ELSE i3
        i5 == IF sc.include_tags THEN add_field(i4, "tags") ELSE i4
        i6 == IF sc.include_categories THEN add_field(i5, "categories") ELSE i5
    IN  i6

(***************************************************************************)
(* AMMONIA.clean and fill_index                                            *)
(*                                                                         *)
(* Raw content is a sequence of scalar values and of tags ("<b>",          *)
(* "<script>", "</script>"); sanitized text is a String.                   *)
(***************************************************************************)
IsTag(t) == t \in {"<b>", "</b>", "<pre>", "</pre>", "<script>", "</script>"}

\* the policy of AMMONIA: no tag is allowed, so every tag is stripped and its
\* text kept ("pre" included); the content of clean_content_tags ("script",
\* "style") is dropped with the tag; text is serialized with "&" escaped.
RECURSIVE CleanFrom(_, _, _)
CleanFrom(content, i, in_script) ==
    IF i > Len(content) THEN <<>>
    ELSE LET t == content[i]
         IN  IF in_script
             THEN CleanFrom(content, i + 1, t # "</script>")
             ELSE IF t = "<script>" THEN CleanFrom(content, i + 1, TRUE)
             ELSE IF IsTag(t) THEN CleanFrom(content, i + 1, FALSE)
             ELSE IF t = "&"
                  THEN <<"&", "a", "m", "p", ";">> \o CleanFrom(content, i + 1, FALSE)
             ELSE <<t>> \o CleanFrom(content, i + 1, FALSE)

clean(content) == CleanFrom(content, 1, FALSE)

\* byte offset of the scalar value at 0-based position n (the length in bytes
\* of the first n scalar values)
RECURSIVE ByteOffset(_, _)
ByteOffset(s, n) ==
    IF n = 0 THEN 0 ELSE ByteOffset(s, n - 1) + Utf8Len(s[n])

\* str::char_indices().nth(n): None past the end, else (byte offset, char)
char_indices_nth(s, n) ==
    IF n >= Len(s) THEN None ELSE Some(<<ByteOffset(s, n), s[n + 1]>>)

\* &s[..idx]: the text of the first idx bytes; panics when idx is past the end
\* or is not on a char boundary
slice_to(s, idx) ==
    LET ks == {k \in 0..Len(s) : ByteOffset(s, k) = idx}
    IN  IF ks = {} THEN Panic ELSE SubSeq(s, 1, CHOOSE k \in ks : TRUE)

unwrap_or_default(opt) == IF opt = None THEN <<>> ELSE unwrap(opt)

\* lines 91-103: the body value
body_byte_index(sc, content) ==
    LET body == clean(content)
    IN  IF sc.truncate_content_length # None
        THEN LET truncate_len == unwrap(sc.truncate_content_length)
             IN  IF truncate_len >= ByteOffset(body, Len(body))
                 THEN body ELSE slice_to(body, truncate_len)
        ELSE body

body_value(sc, content) ==
    LET body == clean(content)
    IN  IF sc.truncate_content_length # None
        THEN LET truncate_len == unwrap(sc.truncate_content_length)
                 nth == char_indices_nth(body, truncate_len)
             IN  IF nth = None THEN body ELSE slice_to(body, unwrap(nth)[1])
        ELSE body

fill_index_categories_first(sc, title, description, path, content, categories, tags) ==
    LET r1 == IF sc.include_title THEN <<unwrap_or_default(title)>> ELSE <<>>
        r2 == IF sc.include_description
              THEN Append(r1, unwrap_or_default(description)) ELSE r1
        r3 == IF sc.include_path THEN Append(r2, path) ELSE r2
        r4 == IF sc.include_content THEN Append(r3, body_value(sc, content)) ELSE r3
        r5 == IF sc.include_categories THEN Append(r4, join(categories, <<" ">>)) ELSE r4
        r6 == IF sc.include_tags THEN Append(r5, join(tags, <<" ">>)) ELSE r5
    IN  r6

fill_index(sc, title, description, path, content, categories, tags) ==
    LET r1 == IF sc.include_title THEN <<unwrap_or_default(title)>> ELSE <<>>
        r2 == IF sc.include_description
              THEN Append(r1, unwrap_or_default(description)) ELSE r1
        r3 == IF sc.include_path THEN Append(r2, path) ELSE r2
        r4 == IF sc.include_content THEN Append(r3, body_value(sc, content)) ELSE r3
        r5 == IF sc.include_tags THEN Append(r4, join(tags, <<" ">>)) ELSE r4
        r6 == IF sc.include_categories THEN Append(r5, join(categories, <<" ">>)) ELSE r5
    IN  r6

(***************************************************************************)
(* get_categories_and_tags and match_file_stem_to_url_segment              *)
(***************************************************************************)
\* str::trim_end_matches('/'): removes every trailing '/'
RECURSIVE trim_end_matches(_, _)
trim_end_matches(s, c) ==
    IF s # <<>> /\ s[Len(s)] = c
    THEN trim_end_matches(SubSeq(s, 1, Len(s) - 1), c) ELSE s

\* str::strip_suffix-like removal of one trailing '/' only
trim_one_end_match(s, c) ==
    IF s # <<>> /\ s[Len(s)] = c THEN SubSeq(s, 1, Len(s) - 1) ELSE s

\* str::rsplit('/').collect(): the segments, last one first
rsplit(s, c) ==
    LET segs == split(s, {c})
    IN  [i \in 1..Len(segs) |-> segs[Len(segs) + 1 - i]]

\* line 201
segments_single_strip(p) == rsplit(trim_one_end_match(p, "/"), "/")

segments_of(p) == rsplit(trim_end_matches(p, "/"), "/")

\* Vec::get(0)
get0(v) == IF Len(v) > 0 THEN Some(v[1]) ELSE None

\* Path::file_name: the last component when it is a normal one; empty and "."
\* components are skipped, a path ending in ".." (or with no component) has none
file_name(path) ==
    LET comps == SelectSeq(split(path, {"/"}), LAMBDA c : c # <<>> /\ c # <<".">>)
    IN  IF comps = <<>> \/ comps[Len(comps)] = <<".", ".">>
        THEN None ELSE Some(comps[Len(comps)])

\* Path::file_stem: the file name up to its last '.', the whole name when it
\* has no '.' or only a leading one
file_stem(path) ==
    LET name == file_name(path)
    IN  IF name = None THEN None
        ELSE LET n == unwrap(name)
                 dots == {i \in 1..Len(n) : n[i] = "."}
                 last == CHOOSE i \in dots : \A j \in dots : j <= i
             IN  IF dots = {} \/ last = 1 THEN Some(n)
                 ELSE Some(SubSeq(n, 1, last - 1))

\* the orders in which iterating a hash map can yield its keys
IterOrders(m) ==
    LET n == Cardinality(DOMAIN m)
    IN  {o \in [1..n -> DOMAIN m] : \A i, j \in 1..n : o[i] = o[j] => i = j}

\* the inner loop of lines 217-223: one push per file whose stem matches
RECURSIVE MatchPaths(_, _, _)
MatchPaths(taxonomy, file_paths, segment) ==
    IF file_paths = <<>> THEN <<>>
    ELSE LET stem == file_stem(Head(file_paths))
             rest == MatchPaths(taxonomy, Tail(file_paths), segment)
         IN  IF stem # None /\ segment = unwrap(stem)
             THEN <<taxonomy>> \o rest ELSE rest

\* the same, pushing a term once however many of its files match
MatchPathsOnce(taxonomy, file_paths, segment) ==
    IF MatchPaths(taxonomy, file_paths, segment) = <<>> THEN <<>> ELSE <<taxonomy>>

\* order is the order in which taxonomies.iter() yields the terms
match_file_stem_to_url_segment_dedup(output, segment, taxonomies, order) ==
    output \o Flatten([i \in 1..Len(order) |->
                          MatchPathsOnce(order[i], taxonomies[order[i]], segment)])

match_file_stem_to_url_segment(output, segment, taxonomies, order) ==
    output \o Flatten([i \in 1..Len(order) |->
                          MatchPaths(order[i], taxonomies[order[i]], segment)])

\* HashMap::get
get(m, k) == IF k \in DOMAIN m THEN Some(m[k]) ELSE None

\* orders.categories, orders.tags: the iteration orders of the two term maps
get_categories_and_tags(lib, p, l, orders) ==
    LET segs == segments_of(p)
        seg0 == get0(segs)
        taxonomies == get(lib.taxonomies_def, l)
        kind(name) == IF taxonomies = None THEN None ELSE get(unwrap(taxonomies), name)
        categories ==
            IF seg0 # None /\ kind("categories") # None
            THEN match_file_stem_to_url_segment(
                     <<>>, unwrap(seg0), unwrap(kind("categories")), orders.categories)
            ELSE <<>>
        tags ==
            IF seg0 # None /\ kind("tags") # None
            THEN match_file_stem_to_url_segment(
                     <<>>, unwrap(seg0), unwrap(kind("tags")), orders.tags)
            ELSE <<>>
    IN  <<categories, tags>>

\* the iteration orders get_categories_and_tags can meet for lib and l
TaxonomyOrders(lib, l) ==
    LET taxonomies == get(lib.taxonomies_def, l)
        of(name) ==
            IF taxonomies = None \/ name \notin DOMAIN unwrap(taxonomies)
            THEN {<<>>} ELSE IterOrders(unwrap(taxonomies)[name])
    IN  [categories : of("categories"), tags : of("tags")]

(***************************************************************************)
(* build_index and add_section_to_index                                    *)
(***************************************************************************)
\* the language codes of the model: "xx" is one elasticlunr does not know
Langs == {"en", "fr", "xx"}

\* elasticlunr::lang::from_code
from_code(code) == IF code \in {"en", "fr"} THEN Some(code) ELSE None

\* IndexBuilder::with_language(language) ... build(): an index with no document
build(language, fields) ==
    [built |-> TRUE, lang |-> language, fields |-> fields, docs |-> <<>>]

NoIndex == [built |-> FALSE]

\* Index::add_doc(doc_ref, data): the document store maps doc_ref to the row
add_doc(idx, doc_ref, data) ==
    [idx EXCEPT !.docs =
        [k \in (DOMAIN idx.docs) \cup {doc_ref} |->
            IF k = doc_ref THEN data ELSE idx.docs[k]]]

\* Index::to_json: the fields and the document store, as text
to_json(idx) ==
    [lang |-> idx.lang,
     fields |-> [i \in 1..Len(idx.fields) |-> idx.fields[i].name],
     documentStore |-> idx.docs]

Pending == [kind |-> "pending"]

Ok(json) == [kind |-> "Ok", json |-> json]

\* bail!("Tried to build search index for language {} which is not supported")
UnsupportedLanguage(code) == [kind |-> "Err", error |-> "UnsupportedLanguage", code |-> code]

\* lines 170-191: the loop over section.pages; st is [index, added]
RECURSIVE AddPages(_, _, _, _, _, _)
AddPages(st, keys, lib, sc, l, orders) ==
    IF keys = <<>> THEN st
    ELSE LET page == lib.pages[Head(keys)]
             ct == get_categories_and_tags(lib, page.permalink, l, orders)
             next ==
                 IF ~page.meta.in_search_index THEN st
                 ELSE [index |-> add_doc(st.index, page.permalink,
                                         fill_index(sc, page.meta.title,
                                                    page.meta.description, page.path,
                                                    page.content, ct[1], ct[2])),
                       added |-> st.added \cup {<<"page", Head(keys)>>}]
         IN  AddPages(next, Tail(keys), lib, sc, l, orders)

\* lines 154-168: the section's own document
AddSectionDoc(st, key, section, sc) ==
    IF section.meta.redirect_to = None
    THEN [index |-> add_doc(st.index, section.permalink,
                            fill_index(sc, section.meta.title, section.meta.description,
                                       section.path, section.content, <<>>, <<>>)),
          added |-> st.added \cup {<<"section", key>>}]
    ELSE st

add_section_to_index_pages_always(st, key, lib, sc, l, orders) ==
    LET section == lib.sections[key]
    IN  IF ~section.meta.in_search_index
        THEN AddPages(st, section.pages, lib, sc, l, orders)
        ELSE AddPages(AddSectionDoc(st, key, section, sc), section.pages, lib, sc, l, orders)

add_section_to_index_redirects_too(st, key, lib, sc, l, orders) ==
    LET section == lib.sections[key]
        own == [index |-> add_doc(st.index, section.permalink,
                                  fill_index(sc, section.meta.title,
                                             section.meta.description,
                                             section.path, section.content, <<>>, <<>>)),
                added |-> st.added \cup {<<"section", key>>}]
    IN  IF ~section.meta.in_search_index THEN st
        ELSE AddPages(own, section.pages, lib, sc, l, orders)

add_section_to_index(st, key, lib, sc, l, orders) ==
    LET section == lib.sections[key]
    IN  IF ~section.meta.in_search_index THEN st
        ELSE AddPages(AddSectionDoc(st, key, section, sc), section.pages, lib, sc, l, orders)

\* lines 134-138: the body of the loop over library.sections
visit_section_any_lang(st, key, lib, sc, l, orders) ==
    add_section_to_index(st, key, lib, sc, l, orders)

visit_section(st, key, lib, sc, l, orders) ==
    IF lib.sections[key].lang = l
    THEN add_section_to_index(st, key, lib, sc, l, orders)
    ELSE st

\* lines 123-132: the language check, then the empty index with its fields
enter_build_index_fallback(l, cfg) ==
    LET language == from_code(l)
        used == IF language = None THEN "en" ELSE unwrap(language)
    IN  [result |-> Pending,
         index |-> build(used, build_fields(cfg.languages[l].search, <<>>))]

enter_build_index(l, cfg) ==
    LET language == from_code(l)
    IN  IF language = None
        THEN [result |-> UnsupportedLanguage(l), index |-> NoIndex]
        ELSE [result |-> Pending,
              index |-> build(unwrap(language),
                              build_fields(cfg.languages[l].search, <<>>))]

(***************************************************************************)
(* Inputs.                                                                 *)
(***************************************************************************)
Flags == [include_title : BOOLEAN, include_description : BOOLEAN,
          include_path : BOOLEAN, include_content : BOOLEAN,
          include_tags : BOOLEAN, include_categories : BOOLEAN]

WithTruncate(flags, limit) ==
    [include_title |-> flags.include_title,
     include_description |-> flags.include_description,
     include_path |-> flags.include_path,
     include_content |-> flags.include_content,
     include_tags |-> flags.include_tags,
     include_categories |-> flags.include_categories,
     truncate_content_length |-> limit]

\* Search::default(): title and content, no limit
DefaultFlags ==
    [include_title |-> TRUE, include_description |-> FALSE, include_path |-> FALSE,
     include_content |-> TRUE, include_tags |-> FALSE, include_categories |-> FALSE]

AllFlags ==
    [include_title |-> TRUE, include_description |-> TRUE, include_path |-> TRUE,
     include_content |-> TRUE, include_tags |-> TRUE, include_categories |-> TRUE]

Limits == {None} \cup {Some(n) : n \in 0..MaxTruncate}

\* the site configuration of the build: a search section per language
SiteConfig ==
    [languages |->
        [l \in Langs |->
            [search |-> IF l = "fr" THEN WithTruncate(AllFlags, Some(2))
                        ELSE WithTruncate(DefaultFlags, None)]]]

\* term names and source files of the taxonomy registry
TermR == <<"r">>

TermG == <<"g", "o">>

Terms == {TermR, TermG}

FileLists ==
    { <<>>,
      << <<"a", ".", "m">> >>,
      << <<"a", ".", "m">>, <<"c", "/", "a", ".", "m">> >>,
      << <<"A", ".", "m">>, <<"b", ".", "m">> >>,
      << <<"c", "/", ".", ".">>, <<"a", ".", "t", ".", "m">>, <<"a">> >> }

TermMaps == [Terms -> FileLists]

KindSets == SUBSET {"categories", "tags"}

Registries == UNION {[kinds -> TermMaps] : kinds \in KindSets}

PermalinkChars == {"a", "A", "/"}

\* the units of the library of a build
SectionKeys == {"s1", "s2"}

PageKeys == 1..MaxPages

PagePermalink(k) == <<"h", "/", ToString(k), "/">>

PageFile(k) == <<"c", "/", ToString(k), ".", "m">>

RECURSIVE Ascending(_)
Ascending(S) ==
    IF S = {} THEN <<>>
    ELSE LET m == CHOOSE x \in S : \A y \in S : x <= y
         IN  <<m>> \o Ascending(S \ {m})

Sections(key) ==
    {[lang |-> l,
      path |-> <<"/", key, "/">>,
      permalink |-> <<"h", "/", key, "/">>,
      content |-> <<"<pre>", "x", "</pre>">>,
      meta |-> [title |-> Some(<<"S">>), description |-> None,
                in_search_index |-> isi, redirect_to |-> r],
      pages |-> Ascending(ps)] :
        l \in Langs, isi \in BOOLEAN, r \in {None, Some(<<"/", "r">>)},
        ps \in SUBSET PageKeys}

Pages(k) ==
    {[path |-> <<"/", "p", ToString(k), "/">>,
      permalink |-> PagePermalink(k),
      content |-> <<"<b>", "U+00E9", "&", "x">>,
      meta |-> [title |-> None, description |-> Some(<<"D">>),
                in_search_index |-> isi]] : isi \in BOOLEAN}

\* the registry of a build: page 1 is in category r and has tags r and go
SiteTaxonomies ==
    [l \in {"en", "fr"} |->
        [kind \in {"categories", "tags"} |->
            [t \in Terms |->
                IF t = TermR THEN << PageFile(1) >>
                ELSE IF kind = "tags" THEN << PageFile(1), PageFile(2) >> ELSE <<>>]]]

Libraries ==
    {[sections |-> ss, pages |-> ps, taxonomies_def |-> SiteTaxonomies] :
        ss \in {f \in [SectionKeys -> UNION {Sections(k) : k \in SectionKeys}] :
                    \A k \in SectionKeys : f[k] \in Sections(k)},
        ps \in {f \in [PageKeys -> UNION {Pages(k) : k \in PageKeys}] :
                    \A k \in PageKeys : f[k] \in Pages(k)}}

EmptyLibrary(taxonomies_def) ==
    [sections |-> <<>>, pages |-> <<>>, taxonomies_def |-> taxonomies_def]

ContentTokens == {"x", "U+00E9", "&", "<b>", "<script>", "</script>"}

TokenizerChars == {"a", "B", " ", "-", "/", "U+1D400"}

\* documents given to fill_index with every combination of the flags
FlagDocs ==
    [title : {None, Some(<<"T">>)},
     description : {None, Some(<<"D">>)},
     path : {<<"/", "a", "/">>},
     content : {<<"x", "<b>", "y">>},
     categories : {<<>>, <<TermR, TermG>>},
     tags : {<<>>, <<TermG>>}]

\* documents given to fill_index with every content and every limit
ContentDocs ==
    [title : {Some(<<"T">>)},
     description : {None},
     path : {<<"/", "a", "/">>},
     content : SeqsUpTo(ContentTokens, MaxContentLen),
     categories : {<<>>},
     tags : {<<>>}]

(***************************************************************************)
(* build_index(lang, library, config)                                      *)
(***************************************************************************)
NoBuild ==
    /\ config = None
    /\ index = NoIndex
    /\ visited = {}
    /\ added = {}
    /\ result = Pending

NoRow ==
    /\ search_config = None
    /\ doc = None
    /\ schema = None
    /\ row = None

NoTokens ==
    /\ text = None
    /\ tokens = None

NoTaxonomy ==
    /\ permalink = None
    /\ url_segment = None
    /\ taxo = None

Init ==
    /\ pc = "start"
    /\ lang \in Langs
    /\ library \in Libraries
    /\ config = SiteConfig
    /\ index = NoIndex
    /\ visited = {}
    /\ added = {}
    /\ result = Pending
    /\ NoRow /\ NoTokens /\ NoTaxonomy

buildVars == <<search_config, doc, schema, row, text, tokens, permalink, url_segment, taxo>>

\* lines 123-132
EnterBuildIndex ==
    /\ pc = "start"
    /\ LET entered == enter_build_index(lang, config)
       IN  /\ result' = entered.result
           /\ index' = entered.index
           /\ pc' = IF entered.result.kind = "Err" THEN "done" ELSE "loop"
    /\ UNCHANGED <<lang, library, config, visited, added>>
    /\ UNCHANGED buildVars

\* lines 134-138: one iteration of the loop, in the order the map yields
VisitSection ==
    /\ pc = "loop"
    /\ \E key \in (DOMAIN library.sections) \ visited :
       \E orders \in TaxonomyOrders(library, lang) :
          LET st == visit_section([index |-> index, added |-> added], key, library,
                                  config.languages[lang].search, lang, orders)
          IN  /\ index' = st.index
              /\ added' = st.added
              /\ visited' = visited \cup {key}
    /\ UNCHANGED <<pc, lang, library, config, result>>
    /\ UNCHANGED buildVars

\* line 140
ReturnJson ==
    /\ pc = "loop"
    /\ visited = DOMAIN library.sections
    /\ result' = Ok(to_json(index))
    /\ pc' = "done"
    /\ UNCHANGED <<lang, library, config, index, visited, added>>
    /\ UNCHANGED buildVars

Next == EnterBuildIndex \/ VisitSection \/ ReturnJson

Spec == Init /\ [][Next]_vars

(***************************************************************************)
(* build_fields(search_config, IndexBuilder::new()) and fill_index(...)    *)
(***************************************************************************)
InitRow ==
    /\ pc = "pure"
    /\ lang = None
    /\ library = None
    /\ NoBuild /\ NoTokens /\ NoTaxonomy
    /\ \/ /\ search_config \in {WithTruncate(f, l) : f \in Flags, l \in {None, Some(1)}}
          /\ doc \in FlagDocs
       \/ /\ search_config \in {WithTruncate(DefaultFlags, l) : l \in Limits}
          /\ doc \in ContentDocs
    /\ schema = None
    /\ row = None

BuildFields ==
    /\ pc = "pure"
    /\ search_config # None
    /\ schema = None
    /\ schema' = Some(build_fields(search_config, <<>>))
    /\ UNCHANGED <<pc, lang, library, config, index, visited, added, result,
                   search_config, doc, row, text, tokens, permalink, url_segment, taxo>>

FillIndex ==
    /\ pc = "pure"
    /\ search_config # None
    /\ row = None
    /\ row' = Some(fill_index(search_config, doc.title, doc.description, doc.path,
                              doc.content, doc.categories, doc.tags))
    /\ UNCHANGED <<pc, lang, library, config, index, visited, added, result,
                   search_config, doc, schema, text, tokens, permalink, url_segment, taxo>>

NextRow == BuildFields \/ FillIndex

SpecRow == InitRow /\ [][NextRow]_vars

(***************************************************************************)
(* path_tokenizer(text)                                                    *)
(***************************************************************************)
InitTokenizer ==
    /\ pc = "pure"
    /\ lang = None
    /\ library = None
    /\ NoBuild /\ NoRow /\ NoTaxonomy
    /\ text \in {Some(t) : t \in SeqsUpTo(TokenizerChars, MaxTextLen)}
    /\ tokens = None

PathTokenizer ==
    /\ pc = "pure"
    /\ text # None
    /\ tokens = None
    /\ tokens' = Some(path_tokenizer(unwrap(text)))
    /\ UNCHANGED <<pc, lang, library, config, index, visited, added, result,
                   search_config, doc, schema, row, text, permalink, url_segment, taxo>>

NextTokenizer == PathTokenizer

SpecTokenizer == InitTokenizer /\ [][NextTokenizer]_vars

(***************************************************************************)
(* get_categories_and_tags(library, permalink, lang)                       *)
(***************************************************************************)
InitTaxonomy ==
    /\ pc = "pure"
    /\ lang \in {"en", "fr"}
    /\ library \in {EmptyLibrary([l \in {"en"} |-> reg]) : reg \in Registries}
    /\ NoBuild /\ NoRow /\ NoTokens
    /\ permalink \in {Some(p) : p \in SeqsUpTo(PermalinkChars, MaxPermalinkLen)}
    /\ url_segment = None
    /\ taxo = None

GetCategoriesAndTags ==
    /\ pc = "pure"
    /\ permalink # None
    /\ taxo = None
    /\ \E orders \in TaxonomyOrders(library, lang) :
          taxo' = Some(get_categories_and_tags(library, unwrap(permalink), lang, orders))
    /\ url_segment' = get0(segments_of(unwrap(permalink)))
    /\ UNCHANGED <<pc, lang, library, config, index, visited, added, result,
                   search_config, doc, schema, row, text, tokens, permalink>>

NextTaxonomy == GetCategoriesAndTags

SpecTaxonomy == InitTaxonomy /\ [][NextTaxonomy]_vars

(***************************************************************************)
(* Properties.                                                             *)
(***************************************************************************)
\* the document keys of the index build_index returned
DocKeys == IF result.kind = "Ok" THEN DOMAIN result.json.documentStore ELSE {}

ChildPages(s) == {library.sections[s].pages[i] : i \in 1..Len(library.sections[s].pages)}

\* the sections of the target language that list page k
ParentsInLang(k) ==
    {s \in DOMAIN library.sections :
        library.sections[s].lang = lang /\ k \in ChildPages(s)}

IndexKeys == IF index.built THEN DOMAIN index.docs ELSE {}

Redirecting(s) == library.sections[s].meta.redirect_to # None

C3_UnsupportedLanguage ==
    /\ (lang \notin {"en", "fr"} /\ pc # "start") =>
          /\ pc = "done"
          /\ result = UnsupportedLanguage(lang)
          /\ index = NoIndex
          /\ added = {}
    /\ lang \notin {"en", "fr"} => result.kind # "Ok"
    /\ lang \in {"en", "fr"} =>
          /\ result.kind # "Err"
          /\ pc = "done" => result = Ok(to_json(index))

\* the call failed although the library has a searchable Section in that
\* language
C3_Witness ==
    /\ pc = "done"
    /\ result.kind = "Err"
    /\ result.code = lang
    /\ \E s \in DOMAIN library.sections :
          /\ library.sections[s].lang = lang
          /\ library.sections[s].meta.in_search_index
          /\ ~Redirecting(s)

\* C10: after a successful build_index a Section's permalink is a document key
\* if and only if its lang is the target lang, its in_search_index is true
\* and it has no redirect_to; a Page listed only by Sections of other
\* languages contributes no document.
C10_SectionKeys ==
    result.kind = "Ok" =>
        /\ \A s \in DOMAIN library.sections :
              (library.sections[s].permalink \in DocKeys
                  <=> /\ library.sections[s].lang = lang
                      /\ library.sections[s].meta.in_search_index
                      /\ ~Redirecting(s))
        /\ \A s \in DOMAIN library.sections :
              <<"section", s>> \in added => library.sections[s].lang = lang
        /\ \A k \in DOMAIN library.pages :
              ParentsInLang(k) = {} =>
                  /\ library.pages[k].permalink \notin DocKeys
                  /\ <<"page", k>> \notin added

\* a searchable Section of another language, with a searchable Page, was
\* passed over while a Section of the target language was indexed
C10_Witness ==
    /\ result.kind = "Ok"
    /\ \E s, t \in DOMAIN library.sections :
          /\ library.sections[s].lang # lang
          /\ library.sections[s].meta.in_search_index
          /\ ~Redirecting(s)
          /\ \E k \in ChildPages(s) :
                /\ library.pages[k].meta.in_search_index
                /\ ParentsInLang(k) = {}
          /\ library.sections[s].permalink \notin DocKeys
          /\ library.sections[t].permalink \in DocKeys

Canonical == <<"title", "description", "path", "body", "tags", "categories">>

Enabled(sc, name) ==
    CASE name = "title" -> sc.include_title
      [] name = "description" -> sc.include_description
      [] name = "path" -> sc.include_path
      [] name = "body" -> sc.include_content
      [] name = "tags" -> sc.include_tags
      [] name = "categories" -> sc.include_categories

\* C4: the schema of build_fields has as many fields as there are true flags
\* and is the canonical sequence title, description, path, body, tags,
\* categories restricted to the enabled flags (empty when all are false);
\* only the path field has the path tokenizer.
C4_SchemaIsCanonicalSubsequence ==
    schema # None =>
        LET fields == unwrap(schema)
        IN  /\ Len(fields)
                 = Cardinality({i \in 1..Len(Canonical) : Enabled(search_config, Canonical[i])})
            /\ [i \in 1..Len(fields) |-> fields[i].name]
                 = SelectSeq(Canonical, LAMBDA n : Enabled(search_config, n))
            /\ (\A i \in 1..Len(Canonical) : ~Enabled(search_config, Canonical[i]))
                 => fields = <<>>
            /\ \A i \in 1..Len(fields) :
                  fields[i].tokenizer = "path_tokenizer" <=> fields[i].name = "path"

\* a schema with path, tags and categories but no title
C4_Witness ==
    /\ schema # None
    /\ ~search_config.include_title
    /\ search_config.include_path
    /\ search_config.include_tags
    /\ search_config.include_categories
    /\ Len(unwrap(schema)) >= 3

\* the value the document d has for the field name
FieldValue(sc, d, name) ==
    CASE name = "title" -> IF d.title = None THEN <<>> ELSE unwrap(d.title)
      [] name = "description" -> IF d.description = None THEN <<>> ELSE unwrap(d.description)
      [] name = "path" -> d.path
      [] name = "body" -> IF sc.truncate_content_length = None THEN clean(d.content)
                          ELSE Take(clean(d.content), unwrap(sc.truncate_content_length))
      [] name = "tags" -> join(d.tags, <<" ">>)
      [] name = "categories" -> join(d.categories, <<" ">>)

\* C5: the row of fill_index is as long as the schema of build_fields for the
\* same configuration, and row[i] is the document's value for schema[i].
C5_RowFollowsSchema ==
    (schema # None /\ row # None) =>
        /\ Len(unwrap(row)) = Len(unwrap(schema))
        /\ \A i \in 1..Len(unwrap(schema)) :
              unwrap(row)[i] = FieldValue(search_config, doc, unwrap(schema)[i].name)

\* a row with distinct tags and categories values and an absent title
C5_Witness ==
    /\ schema # None
    /\ row # None
    /\ search_config.include_title
    /\ search_config.include_tags
    /\ search_config.include_categories
    /\ doc.title = None
    /\ doc.tags # <<>>
    /\ doc.categories # <<>>
    /\ Len(unwrap(row)) >= 3

\* position of the body value in the row
BodyIndex ==
    1 + Cardinality({n \in {"title", "description", "path"} : Enabled(search_config, n)})

\* C6: with include_content and truncate_content_length = N the body is the
\* first N scalar values of the sanitized content when that is longer than N,
\* the whole sanitized content otherwise, and empty for N = 0; without a limit
\* it is the whole sanitized content.  The cut never splits a character.
C6_Truncation ==
    (row # None /\ search_config.include_content) =>
        LET body == unwrap(row)[BodyIndex]
            sanitized == clean(doc.content)
            limit == search_config.truncate_content_length
        IN  IF limit = None THEN body = sanitized
            ELSE /\ Len(sanitized) > unwrap(limit)
                      => body = SubSeq(sanitized, 1, unwrap(limit))
                 /\ Len(sanitized) <= unwrap(limit) => body = sanitized
                 /\ unwrap(limit) = 0 => body = <<>>
                 /\ body # Panic

\* a cut made right after a two-byte character
C6_Witness ==
    /\ row # None
    /\ search_config.include_content
    /\ search_config.truncate_content_length # None
    /\ LET n == unwrap(search_config.truncate_content_length)
           sanitized == clean(doc.content)
       IN  /\ n >= 1
           /\ Len(sanitized) > n
           /\ Utf8Len(sanitized[n]) > 1
           /\ Len(unwrap(row)[BodyIndex]) = n

Count(list, x) == Cardinality({i \in 1..Len(list) : list[i] = x})

\* number of the files whose stem is the segment
MatchingFiles(file_paths, segment) ==
    Cardinality({i \in 1..Len(file_paths) : file_stem(file_paths[i]) = Some(segment)})

KindLaw(list, kind) ==
    LET defs == library.taxonomies_def
    IN  IF lang \notin DOMAIN defs \/ kind \notin DOMAIN defs[lang]
        THEN list = <<>>
        ELSE /\ \A i \in 1..Len(list) : list[i] \in DOMAIN defs[lang][kind]
             /\ \A t \in DOMAIN defs[lang][kind] :
                   Count(list, t) = MatchingFiles(defs[lang][kind][t], unwrap(url_segment))

\* C7: the categories list holds each term of the language's "categories" kind
\* once per file of the term whose stem is the url_segment, and nothing else;
\* the same for tags and the "tags" kind; a missing language or kind or no
\* match gives an empty list.
C7_TaxonomyCounts ==
    taxo # None =>
        /\ KindLaw(unwrap(taxo)[1], "categories")
        /\ KindLaw(unwrap(taxo)[2], "tags")

\* a term pushed twice for two files with the same stem, while tags differ
C7_Witness ==
    /\ taxo # None
    /\ \E t \in Terms : Count(unwrap(taxo)[1], t) = 2
    /\ unwrap(taxo)[2] # unwrap(taxo)[1]

\* text after the last '/' of s
AfterLastSlash(s) ==
    LET slashes == {i \in 1..Len(s) : s[i] = "/"}
        last == IF slashes = {} THEN 0 ELSE CHOOSE i \in slashes : \A j \in slashes : j <= i
    IN  SubSeq(s, last + 1, Len(s))

\* s without its trailing '/' characters
WithoutTrailingSlashes(s) ==
    LET others == {i \in 1..Len(s) : s[i] # "/"}
        last == IF others = {} THEN 0 ELSE CHOOSE i \in others : \A j \in others : j <= i
    IN  SubSeq(s, 1, last)

\* C9, as stated: the url_segment is the last '/'-delimited segment of the
\* permalink with a single trailing '/' stripped, so a permalink ending in two
\* or more slashes has the empty url_segment.
C9_SingleSlashStripped ==
    taxo # None =>
        url_segment = Some(AfterLastSlash(trim_one_end_match(unwrap(permalink), "/")))

\* C9, as amended: the url_segment is the last '/'-delimited segment of the
\* permalink with every trailing '/' stripped, so a permalink ending in
\* several slashes has the segment before them.
C9_AllTrailingSlashesStripped ==
    taxo # None =>
        url_segment = Some(AfterLastSlash(WithoutTrailingSlashes(unwrap(permalink))))

\* a permalink ending in two slashes resolved to the segment before them
C9_Witness ==
    /\ taxo # None
    /\ Len(unwrap(permalink)) >= 3
    /\ unwrap(permalink)[Len(unwrap(permalink))] = "/"
    /\ unwrap(permalink)[Len(unwrap(permalink)) - 1] = "/"
    /\ url_segment # Some(<<>>)

\* the maximal runs of non-delimiter characters of t, as <<first, last>>
Runs(t) ==
    {r \in (1..Len(t)) \X (1..Len(t)) :
        /\ r[1] <= r[2]
        /\ \A i \in r[1]..r[2] : t[i] \notin PathDelimiters
        /\ r[1] = 1 \/ t[r[1] - 1] \in PathDelimiters
        /\ r[2] = Len(t) \/ t[r[2] + 1] \in PathDelimiters}

\* toks are the runs of t from left to right, each lowercased
TokensAreLowercasedRuns(t, toks) ==
    /\ Len(toks) = Cardinality(Runs(t))
    /\ \A r \in Runs(t) :
          toks[1 + Cardinality({q \in Runs(t) : q[1] < r[1]})]
              = to_lowercase(SubSeq(t, r[1], r[2]))

\* C8, as stated: path_tokenizer returns the non-empty segments between
\* whitespace, '-' and '/', left to right, each lowercased; no token is empty
\* and no token contains an uppercase character or a delimiter.
C8_NoUppercaseCharacter ==
    tokens # None =>
        /\ TokensAreLowercasedRuns(unwrap(text), unwrap(tokens))
        /\ \A i \in 1..Len(unwrap(tokens)) :
              /\ unwrap(tokens)[i] # <<>>
              /\ \A j \in 1..Len(unwrap(tokens)[i]) :
                    /\ ~is_uppercase(unwrap(tokens)[i][j])
                    /\ unwrap(tokens)[i][j] \notin PathDelimiters

\* C8, as amended: the same, except that the characters a token cannot
\* contain are the delimiters and the characters that have a lowercase
\* mapping; an uppercase character without one (U+1D400) is kept as it is.
C8_TokensLowercased ==
    tokens # None =>
        /\ TokensAreLowercasedRuns(unwrap(text), unwrap(tokens))
        /\ \A i \in 1..Len(unwrap(tokens)) :
              /\ unwrap(tokens)[i] # <<>>
              /\ \A j \in 1..Len(unwrap(tokens)[i]) :
                    /\ to_lowercase_char(unwrap(tokens)[i][j]) = unwrap(tokens)[i][j]
                    /\ unwrap(tokens)[i][j] \notin PathDelimiters

\* two tokens out of a text with adjacent delimiters and a capital letter
C8_Witness ==
    /\ tokens # None
    /\ Len(unwrap(tokens)) = 2
    /\ Len(unwrap(text)) = 4
    /\ \E i \in 1..3 :
          unwrap(text)[i] \in PathDelimiters /\ unwrap(text)[i + 1] \in PathDelimiters
    /\ \E i \in 1..4 : unwrap(text)[i] = "B"

====
